---- MODULE Spec2Model ----
(***************************************************************************)
(* Rolling pickup-count pipeline of the taxi-zone feature scripts          *)
(* (Development/trip-level-rolling-features.py and                         *)
(* Development/compute_rolling_demand_features.py).  Both scripts run the  *)
(* same steps: concatenate the loaded chunks, drop records with a missing  *)
(* field, sort by (zone, time), find the contiguous zone ranges, fill the  *)
(* three rolling-count arrays zone by zone with np.searchsorted, print,    *)
(* and aggregate to one row per (date, zone).                              *)
(*                                                                         *)
(* Time unit: one tick is 30 minutes (1 800 000 000 000 ns), so the three  *)
(* window constants of the scripts are 2, 12 and 48 ticks and a calendar   *)
(* day is 48 ticks.  Indices stored in state (zone_starts, zone_ends, zi)  *)
(* are 0-based as in the scripts; sequences are 1-based.  Timestamps stay   *)
(* far from the ends of the int64 range, so t - window never wraps.        *)
(***************************************************************************)
EXTENDS Integers, Sequences, FiniteSets, TLC

VARIABLES pc, trips, ts, zone, zone_starts, zone_ends, zi,
          r1h, r6h, r24h, daily_zone_features,
          total_rows, daily_zone_counts

vars == <<pc, trips, ts, zone, zone_starts, zone_ends, zi,
          r1h, r6h, r24h, daily_zone_features,
          total_rows, daily_zone_counts>>

\* ---------------------------------------------------------------- bounds
MaxEvents == 4
MaxZone == 2

\* ------------------------------------------------------------- constants
ns_1h == 2
ns_6h == 12
ns_24h == 48
\* Ticks in one calendar day (dt.normalize truncates to midnight).
DayTicks == 48

\* A missing timestamp (NaT) and a missing zone id (NaN) in a raw record.
NaT == -1
NaN == 0
\* An entry of an np.empty array that no loop iteration has written yet.
Uninit == -1000

Zones == 1..MaxZone
\* Pickup times of the model, on two days.  Among them every window has a
\* pair of times closer than the window, a pair exactly one window apart
\* and a pair further apart.
Times == {0, 1, ns_1h, 2 * ns_1h, ns_6h + 1, ns_24h + 1}

\* A loaded row: both fields present, or one of them missing.
RawRecords ==
    [pickup_datetime : Times, PULocationID : Zones]
      \cup {[pickup_datetime |-> NaT, PULocationID |-> 1],
            [pickup_datetime |-> 0, PULocationID |-> NaN]}

\* ------------------------------------------------------- pure functions
\* _trips.dropna(subset=["pickup_datetime", "PULocationID"])
DropNa(s) ==
    SelectSeq(s, LAMBDA r : r.pickup_datetime # NaT /\ r.PULocationID # NaN)

\* Row order of sort_values(["PULocationID", "pickup_datetime"]).
RowLess(a, b) ==
    \/ a.PULocationID < b.PULocationID
    \/ a.PULocationID = b.PULocationID /\ a.pickup_datetime < b.pickup_datetime

\* Stable insertion of r into the sorted sequence s: r goes after every row
\* that is not greater than it.
InsertRow(s, r) ==
    LET k == Cardinality({i \in 1..Len(s) : ~RowLess(r, s[i])})
    IN  SubSeq(s, 1, k) \o <<r>> \o SubSeq(s, k + 1, Len(s))

RECURSIVE SortValues(_)
SortValues(s) ==
    IF Len(s) = 0 THEN <<>>
    ELSE InsertRow(SortValues(SubSeq(s, 1, Len(s) - 1)), s[Len(s)])

\* The ascending sequence of the elements of a finite set of integers.
RECURSIVE SortedSeqOf(_)
SortedSeqOf(S) ==
    IF S = {} THEN <<>>
    ELSE LET m == CHOOSE x \in S : \A y \in S : x <= y
         IN  <<m>> \o SortedSeqOf(S \ {m})

\* np.unique(_zone, return_index=True)[1]: for each distinct zone id, in
\* ascending order of the id, the 0-based index of its first occurrence.
ZoneStartsLast(z) ==
    LET u == SortedSeqOf({z[i] : i \in 1..Len(z)})
    IN  [k \in 1..Len(u) |->
            (CHOOSE i \in 1..Len(z) :
                z[i] = u[k] /\ \A j \in 1..Len(z) : z[j] = u[k] => j <= i) - 1]

ZoneStarts(z) ==
    LET u == SortedSeqOf({z[i] : i \in 1..Len(z)})
    IN  [k \in 1..Len(u) |->
            (CHOOSE i \in 1..Len(z) :
                z[i] = u[k] /\ \A j \in 1..Len(z) : z[j] = u[k] => i <= j) - 1]

\* np.append(_zone_starts[1:], len(_zone))
ZoneEnds(starts, n) ==
    IF Len(starts) = 0 THEN <<n>> ELSE Append(Tail(starts), n)

\* Inner loop of numpy's binsearch: the bisection of a[min_idx..max_idx).
RECURSIVE BinSearchRight(_, _, _, _)
BinSearchRight(a, key_val, min_idx, max_idx) ==
    IF min_idx < max_idx
    THEN LET mid_idx == min_idx + ((max_idx - min_idx) \div 2)
         IN  IF a[mid_idx + 1] <= key_val
             THEN BinSearchRight(a, key_val, mid_idx + 1, max_idx)
             ELSE BinSearchRight(a, key_val, min_idx, mid_idx)
    ELSE min_idx

RECURSIVE BinSearch(_, _, _, _)
BinSearch(a, key_val, min_idx, max_idx) ==
    IF min_idx < max_idx
    THEN LET mid_idx == min_idx + ((max_idx - min_idx) \div 2)
         IN  IF a[mid_idx + 1] < key_val
             THEN BinSearch(a, key_val, mid_idx + 1, max_idx)
             ELSE BinSearch(a, key_val, min_idx, mid_idx)
    ELSE min_idx

\* Outer loop of numpy's binsearch over the keys v[k..]: the bounds left by
\* the previous key are reused when the keys ascend.
RECURSIVE SearchKeys(_, _, _, _, _, _)
SearchKeys(a, v, k, min_idx, max_idx, last_key_val) ==
    IF k > Len(v) THEN <<>>
    ELSE LET key_val == v[k]
             lo == IF last_key_val < key_val THEN min_idx ELSE 0
             hi == IF last_key_val < key_val THEN Len(a)
                   ELSE IF max_idx < Len(a) THEN max_idx + 1 ELSE Len(a)
             res == BinSearch(a, key_val, lo, hi)
         IN  <<res>> \o SearchKeys(a, v, k + 1, res, res, key_val)

\* np.searchsorted(a, v, side="left"): one 0-based index per key.
searchsorted(a, v) ==
    IF Len(v) = 0 THEN <<>> ELSE SearchKeys(a, v, 1, 0, Len(a), v[1])

\* _local_idx - np.searchsorted(_t, _t - _ns, side="left")
RollingCountPlus(t, ns) ==
    LET found == searchsorted(t, [i \in 1..Len(t) |-> t[i] + ns])
    IN  [i \in 1..Len(t) |-> (i - 1) - found[i]]

RollingCountFromOne(t, ns) ==
    LET found == searchsorted(t, [i \in 1..Len(t) |-> t[i] - ns])
    IN  [i \in 1..Len(t) |-> i - found[i]]

RollingCount(t, ns) ==
    LET found == searchsorted(t, [i \in 1..Len(t) |-> t[i] - ns])
    IN  [i \in 1..Len(t) |-> (i - 1) - found[i]]

\* _r[:_e - _s] = c : the slice assignment without the partition's offset.
AssignSliceNoOffset(r, s, e, c) ==
    [i \in 1..Len(r) |-> IF i <= e - s THEN c[i] ELSE r[i]]

\* _r[_s:_e] = c : the slice assignment of one loop iteration.
AssignSlice(r, s, e, c) ==
    [i \in 1..Len(r) |-> IF s < i /\ i <= e THEN c[i - s] ELSE r[i]]

\* pickup_datetime.dt.normalize(): midnight of the timestamp's day.
Normalize(t) == t - (t % DayTicks)

GroupKey(row) == <<Normalize(row.pickup_datetime), row.PULocationID>>

KeyLess(a, b) == a[1] < b[1] \/ (a[1] = b[1] /\ a[2] < b[2])

RECURSIVE SortKeys(_)
SortKeys(S) ==
    IF S = {} THEN <<>>
    ELSE LET m == CHOOSE x \in S : \A y \in S : x = y \/ KeyLess(x, y)
         IN  <<m>> \o SortKeys(S \ {m})

\* The group keys in the order of their first row (groupby(..., sort=False)).
RECURSIVE FirstSeenKeys(_)
FirstSeenKeys(tr) ==
    IF Len(tr) = 0 THEN <<>>
    ELSE LET front == FirstSeenKeys(SubSeq(tr, 1, Len(tr) - 1))
             k == GroupKey(tr[Len(tr)])
         IN  IF \E i \in 1..Len(front) : front[i] = k THEN front
             ELSE Append(front, k)

\* groupby(["date", "PULocationID"], observed=True, sort=True): the keys that
\* occur, ascending by (date, zone).
GroupOrder(tr) == SortKeys({GroupKey(tr[i]) : i \in 1..Len(tr)})

\* The rows of one group (1-based positions in the sorted frame).
GroupRows(tr, k) == {i \in 1..Len(tr) : GroupKey(tr[i]) = k}

\* ("pickup_datetime", "nunique"): the distinct timestamps of the group.
GroupNUnique(tr, k) ==
    Cardinality({tr[i].pickup_datetime : i \in GroupRows(tr, k)})

\* ("pickup_datetime", "count"): the non-null timestamps of the group.
GroupCount(tr, k) ==
    Cardinality({i \in GroupRows(tr, k) : tr[i].pickup_datetime # NaT})

RECURSIVE SumOver(_, _)
SumOver(r, I) ==
    IF I = {} THEN 0
    ELSE LET i == CHOOSE x \in I : TRUE IN r[i] + SumOver(r, I \ {i})

\* mean(...).round(2), in hundredths: the quotient sum/n to two decimals,
\* a tie going to the even neighbour.
MeanRound2(r, I) ==
    LET n == Cardinality(I)
        num == 100 * SumOver(r, I)
        q == num \div n
        rem == num % n
    IN  IF 2 * rem < n THEN q
        ELSE IF 2 * rem > n THEN q + 1
        ELSE IF q % 2 = 0 THEN q ELSE q + 1

DailyZoneFeatures(tr, c1, c6, c24) ==
    LET keys == GroupOrder(tr)
    IN  [g \in 1..Len(keys) |->
            [date             |-> keys[g][1],
             zone             |-> keys[g][2],
             daily_trips      |-> GroupCount(tr, keys[g]),
             rolling_1h_mean  |-> MeanRound2(c1, GroupRows(tr, keys[g])),
             rolling_6h_mean  |-> MeanRound2(c6, GroupRows(tr, keys[g])),
             rolling_24h_mean |-> MeanRound2(c24, GroupRows(tr, keys[g]))]]

\* ---------------------------------------------------- load_and_aggregate.py
\* pd.to_datetime(pickup_datetime).dt.normalize(): a missing time stays NaT.
NormalizeDate(t) == IF t = NaT THEN NaT ELSE Normalize(t)

\* The (date, PULocationID) key of a raw row.
RawKey(row) == <<NormalizeDate(row.pickup_datetime), row.PULocationID>>

\* groupby(..., dropna=False): every key forms a group.
KeyKeptAlways(k) == k = k

\* groupby default (dropna=True): a key with a missing component forms no
\* group.
KeyKept(k) == k[1] # NaT /\ k[2] # NaN

\* groupby(["date", "PULocationID"], observed=True).size()
\*   .reset_index(name="ride_count"), LocationID cast to int.
DailyZoneCounts(tr) ==
    LET keys == SortKeys({k \in {RawKey(tr[i]) : i \in 1..Len(tr)} : KeyKept(k)})
    IN  [g \in 1..Len(keys) |->
            [date       |-> keys[g][1],
             LocationID |-> keys[g][2],
             ride_count |->
                 Cardinality({i \in 1..Len(tr) : RawKey(tr[i]) = keys[g]})]]

\* ------------------------------------------------------------ the pipeline
\* State after pd.concat of the loaded chunks: any finite batch of records.
Init ==
    /\ \E n \in 0..MaxEvents : trips \in [1..n -> RawRecords]
    /\ pc = "clean"
    /\ ts = <<>> /\ zone = <<>>
    /\ zone_starts = <<>> /\ zone_ends = <<>> /\ zi = 0
    /\ r1h = <<>> /\ r6h = <<>> /\ r24h = <<>>
    /\ daily_zone_features = <<>>
    /\ total_rows = 0 /\ daily_zone_counts = <<>>

\* to_datetime, dropna, astype("int32")
Clean ==
    /\ pc = "clean"
    /\ trips' = DropNa(trips)
    /\ pc' = "sort"
    /\ UNCHANGED <<ts, zone, zone_starts, zone_ends, zi,
                   r1h, r6h, r24h, daily_zone_features>>
    /\ UNCHANGED <<total_rows, daily_zone_counts>>

\* sort_values(["PULocationID", "pickup_datetime"]).reset_index(drop=True)
Sort ==
    /\ pc = "sort"
    /\ trips' = SortValues(trips)
    /\ pc' = "partition"
    /\ UNCHANGED <<ts, zone, zone_starts, zone_ends, zi,
                   r1h, r6h, r24h, daily_zone_features>>
    /\ UNCHANGED <<total_rows, daily_zone_counts>>

\* _ts, _zone, _zone_starts, _zone_ends and the three np.empty arrays
Partition ==
    /\ pc = "partition"
    /\ ts' = [i \in 1..Len(trips) |-> trips[i].pickup_datetime]
    /\ zone' = [i \in 1..Len(trips) |-> trips[i].PULocationID]
    /\ zone_starts' = ZoneStarts(zone')
    /\ zone_ends' = ZoneEnds(zone_starts', Len(zone'))
    /\ r1h' = [i \in 1..Len(trips) |-> Uninit]
    /\ r6h' = [i \in 1..Len(trips) |-> Uninit]
    /\ r24h' = [i \in 1..Len(trips) |-> Uninit]
    /\ zi' = 0
    /\ pc' = "loop"
    /\ UNCHANGED <<trips, daily_zone_features>>
    /\ UNCHANGED <<total_rows, daily_zone_counts>>

\* One iteration of `for _zi in range(len(_zone_starts))`
CountZone ==
    /\ pc = "loop"
    /\ zi < Len(zone_starts)
    /\ LET s == zone_starts[zi + 1]
           e == zone_ends[zi + 1]
           t == SubSeq(ts, s + 1, e)
       IN  /\ r1h' = AssignSlice(r1h, s, e, RollingCount(t, ns_1h))
           /\ r6h' = AssignSlice(r6h, s, e, RollingCount(t, ns_6h))
           /\ r24h' = AssignSlice(r24h, s, e, RollingCount(t, ns_24h))
    /\ zi' = zi + 1
    /\ UNCHANGED <<pc, trips, ts, zone, zone_starts, zone_ends,
                   daily_zone_features>>
    /\ UNCHANGED <<total_rows, daily_zone_counts>>

\* The loop is exhausted; the arrays become the rolling_* columns.
AttachColumns ==
    /\ pc = "loop"
    /\ zi = Len(zone_starts)
    /\ pc' = "print"
    /\ UNCHANGED <<trips, ts, zone, zone_starts, zone_ends, zi,
                   r1h, r6h, r24h, daily_zone_features>>
    /\ UNCHANGED <<total_rows, daily_zone_counts>>

\* trip-level-rolling-features.py: the range report calls .min() and .max()
\* on the three arrays; numpy raises ValueError on a zero-size array.
PrintRanges ==
    /\ pc = "print"
    /\ pc' = IF Len(r1h) = 0 THEN "error" ELSE "aggregate"
    /\ UNCHANGED <<trips, ts, zone, zone_starts, zone_ends, zi,
                   r1h, r6h, r24h, daily_zone_features>>
    /\ UNCHANGED <<total_rows, daily_zone_counts>>

\* compute_rolling_demand_features.py: copies the feature columns and
\* prints shape, columns and head(5); none of these fails on an empty frame.
PrintTripFeatures ==
    /\ pc = "print"
    /\ pc' = "aggregate"
    /\ UNCHANGED <<trips, ts, zone, zone_starts, zone_ends, zi,
                   r1h, r6h, r24h, daily_zone_features>>
    /\ UNCHANGED <<total_rows, daily_zone_counts>>

\* date column, groupby/agg, rounding of the means, summary output
Aggregate ==
    /\ pc = "aggregate"
    /\ daily_zone_features' = DailyZoneFeatures(trips, r1h, r6h, r24h)
    /\ pc' = "done"
    /\ UNCHANGED <<trips, ts, zone, zone_starts, zone_ends, zi,
                   r1h, r6h, r24h>>
    /\ UNCHANGED <<total_rows, daily_zone_counts>>

Next ==
    \/ Clean
    \/ Sort
    \/ Partition
    \/ CountZone
    \/ AttachColumns
    \/ PrintRanges
    \/ PrintTripFeatures
    \/ Aggregate

Spec == Init /\ [][Next]_vars

\* The counting stage entered with a frame whose rows are grouped by zone
\* but whose timestamps were left in arbitrary order by a defective sort.
ZoneGrouped(tr) ==
    \A i \in 1..Len(tr) - 1 : tr[i].PULocationID <= tr[i + 1].PULocationID

InitDefect ==
    /\ \E n \in 0..MaxEvents :
          trips \in [1..n -> [pickup_datetime : Times, PULocationID : Zones]]
    /\ ZoneGrouped(trips)
    /\ pc = "partition"
    /\ ts = <<>> /\ zone = <<>>
    /\ zone_starts = <<>> /\ zone_ends = <<>> /\ zi = 0
    /\ r1h = <<>> /\ r6h = <<>> /\ r24h = <<>>
    /\ daily_zone_features = <<>>
    /\ total_rows = 0 /\ daily_zone_counts = <<>>

NextDefect ==
    \/ Partition
    \/ CountZone
    \/ AttachColumns
    \/ PrintRanges
    \/ PrintTripFeatures
    \/ Aggregate

SpecDefect == InitDefect /\ [][NextDefect]_vars

\* The loop body run by independent workers, one partition each, with no
\* synchronization: a worker executes the three slice assignments of its
\* partition in program order, and the assignments of different workers
\* interleave freely.  k is the 1-based number of the partition (_zi + 1).
Written(r, k) == r[zone_starts[k] + 1] # Uninit

ParCount1h ==
    /\ pc = "loop"
    /\ zi < Len(zone_starts)
    /\ \E k \in 1..Len(zone_starts) :
          /\ ~Written(r1h, k)
          /\ LET s == zone_starts[k]
                 e == zone_ends[k]
                 t == SubSeq(ts, s + 1, e)
             IN  r1h' = AssignSlice(r1h, s, e, RollingCount(t, ns_1h))
    /\ UNCHANGED <<pc, trips, ts, zone, zone_starts, zone_ends, zi,
                   r6h, r24h, daily_zone_features>>
    /\ UNCHANGED <<total_rows, daily_zone_counts>>

ParCount6h ==
    /\ pc = "loop"
    /\ zi < Len(zone_starts)
    /\ \E k \in 1..Len(zone_starts) :
          /\ Written(r1h, k) /\ ~Written(r6h, k)
          /\ LET s == zone_starts[k]
                 e == zone_ends[k]
                 t == SubSeq(ts, s + 1, e)
             IN  r6h' = AssignSlice(r6h, s, e, RollingCount(t, ns_6h))
    /\ UNCHANGED <<pc, trips, ts, zone, zone_starts, zone_ends, zi,
                   r1h, r24h, daily_zone_features>>
    /\ UNCHANGED <<total_rows, daily_zone_counts>>

\* The last assignment of a worker; zi counts the finished partitions.
ParCount24h ==
    /\ pc = "loop"
    /\ zi < Len(zone_starts)
    /\ \E k \in 1..Len(zone_starts) :
          /\ Written(r6h, k) /\ ~Written(r24h, k)
          /\ LET s == zone_starts[k]
                 e == zone_ends[k]
                 t == SubSeq(ts, s + 1, e)
             IN  r24h' = AssignSlice(r24h, s, e, RollingCount(t, ns_24h))
    /\ zi' = zi + 1
    /\ UNCHANGED <<pc, trips, ts, zone, zone_starts, zone_ends,
                   r1h, r6h, daily_zone_features>>
    /\ UNCHANGED <<total_rows, daily_zone_counts>>

\* The workers start from the cleaned frame as sort_values leaves it.
InitSorted ==
    /\ \E n \in 0..MaxEvents :
          trips \in [1..n -> [pickup_datetime : Times, PULocationID : Zones]]
    /\ \A i \in 1..Len(trips) - 1 : ~RowLess(trips[i + 1], trips[i])
    /\ pc = "partition"
    /\ ts = <<>> /\ zone = <<>>
    /\ zone_starts = <<>> /\ zone_ends = <<>> /\ zi = 0
    /\ r1h = <<>> /\ r6h = <<>> /\ r24h = <<>>
    /\ daily_zone_features = <<>>
    /\ total_rows = 0 /\ daily_zone_counts = <<>>

NextParallel ==
    \/ Partition
    \/ ParCount1h
    \/ ParCount6h
    \/ ParCount24h
    \/ AttachColumns
    \/ PrintRanges
    \/ PrintTripFeatures
    \/ Aggregate

SpecParallel == InitSorted /\ [][NextParallel]_vars

\* load_and_aggregate.py and the rolling-feature pipeline run on the same
\* loaded records: the first script aggregates the raw rows, then the
\* pipeline cleans, sorts, counts and aggregates them.
\* The batches range over two times of one day and one of the next, every
\* zone, and every way a field can be missing.
LoadedRecords ==
    [pickup_datetime : {0, ns_6h + 1, ns_24h + 1, NaT},
     PULocationID : Zones \cup {NaN}]

InitBoth ==
    /\ \E n \in 0..MaxEvents : trips \in [1..n -> LoadedRecords]
    /\ pc = "load"
    /\ ts = <<>> /\ zone = <<>>
    /\ zone_starts = <<>> /\ zone_ends = <<>> /\ zi = 0
    /\ r1h = <<>> /\ r6h = <<>> /\ r24h = <<>>
    /\ daily_zone_features = <<>>
    /\ total_rows = 0 /\ daily_zone_counts = <<>>

\* load_and_aggregate.py: row total, date column, groupby/size
LoadAndAggregate ==
    /\ pc = "load"
    /\ total_rows' = Len(trips)
    /\ daily_zone_counts' = DailyZoneCounts(trips)
    /\ pc' = "clean"
    /\ UNCHANGED <<trips, ts, zone, zone_starts, zone_ends, zi,
                   r1h, r6h, r24h, daily_zone_features>>

NextBoth ==
    \/ LoadAndAggregate
    \/ Clean
    \/ Sort
    \/ Partition
    \/ CountZone
    \/ AttachColumns
    \/ PrintRanges
    \/ PrintTripFeatures
    \/ Aggregate

SpecBoth == InitBoth /\ [][NextBoth]_vars

\* ------------------------------------------------------------- properties
TypeOK ==
    /\ pc \in {"load", "clean", "sort", "partition", "loop", "print", "aggregate",
               "done", "error"}
    /\ zi \in 0..Len(zone_starts)
    /\ Len(r1h) = Len(ts) /\ Len(r6h) = Len(ts) /\ Len(r24h) = Len(ts)

\* The loop has run to its end: all rolling counts are final.
Counted == pc \in {"print", "aggregate", "done", "error"}

\* The index arrays of the partitions exist.
Partitioned == pc \in {"loop", "print", "aggregate", "done", "error"}

Windows == {ns_1h, ns_6h, ns_24h}

CountOf(w) == IF w = ns_1h THEN r1h ELSE IF w = ns_6h THEN r6h ELSE r24h

\* Rows (1-based) of the sorted frame that belong to the zone of row i.
SameZone(i) == {j \in 1..Len(zone) : zone[j] = zone[i]}

\* Events of row i's zone whose timestamp lies in (t - w, t].
InWindow(i, w) ==
    {j \in SameZone(i) : ts[i] - w < ts[j] /\ ts[j] <= ts[i]}

\* Timestamps of partition k, and its 0-based start.
PartStart(k) == zone_starts[k]
PartTimes(k) == SubSeq(ts, zone_starts[k] + 1, zone_ends[k])

\* Smallest 0-based index j with t[j] >= x, Len(t) when there is none.
LowerBound(t, x) ==
    LET S == {j \in 0..Len(t) - 1 : t[j + 1] >= x} \cup {Len(t)}
    IN  CHOOSE j \in S : \A m \in S : j <= m

\* C1: every rolling count equals the number of events of the same zone,
\* the event itself included, with timestamp in (t - window, t].
C1_InclusiveWindowCount ==
    Counted =>
        \A i \in 1..Len(ts) : \A w \in Windows :
            CountOf(w)[i] = Cardinality(InWindow(i, w))

\* C2: every rolling count c satisfies 1 <= c <= partition length.
C2_CountBetweenOneAndLength ==
    Counted =>
        \A i \in 1..Len(ts) : \A w \in Windows :
            1 <= CountOf(w)[i] /\ CountOf(w)[i] <= Cardinality(SameZone(i))

\* C3: for every event the counts nest with the window size,
\* count(1h) <= count(6h) <= count(24h).
C3_WindowNesting ==
    Counted =>
        \A i \in 1..Len(ts) : r1h[i] <= r6h[i] /\ r6h[i] <= r24h[i]

C3_Witness ==
    /\ Counted
    /\ \E i \in 1..Len(ts) : r1h[i] < r6h[i]
    /\ \E i \in 1..Len(ts) : r6h[i] < r24h[i]

\* C4: the ranges [start_k, end_k) start at 0, are consecutive and non-empty,
\* end at the array length, cover each index exactly once, hold one zone id
\* each, and different ranges hold different zone ids.
C4_PartitionCover ==
    Partitioned =>
        LET n == Len(zone)
            K == 1..Len(zone_starts)
            InRange(k, i) == zone_starts[k] <= i /\ i < zone_ends[k]
        IN  /\ (n > 0) => (K # {} /\ zone_starts[1] = 0
                              /\ zone_ends[Len(zone_starts)] = n)
            /\ (n = 0) => (K = {})
            /\ \A k \in K : zone_starts[k] < zone_ends[k]
            /\ \A k \in K : k < Len(zone_starts)
                               => zone_ends[k] = zone_starts[k + 1]
            /\ \A i \in 0..n - 1 :
                   Cardinality({k \in K : InRange(k, i)}) = 1
            /\ \A k \in K : \A i, j \in 0..n - 1 :
                   (InRange(k, i) /\ InRange(k, j)) => zone[i + 1] = zone[j + 1]
            /\ \A k, l \in K :
                   k # l => zone[zone_starts[k] + 1] # zone[zone_starts[l] + 1]

C4_Witness ==
    /\ Partitioned
    /\ Len(zone_starts) = 2
    /\ zone_ends[1] - zone_starts[1] >= 2
    /\ zone_ends[2] - zone_starts[2] >= 2

\* The normalized events of zone z (rows of the cleaned, sorted frame).
NormalizedOfZone(z) == {i \in 1..Len(trips) : trips[i].PULocationID = z}

RowsOfZone(z) ==
    {g \in 1..Len(daily_zone_features) : daily_zone_features[g].zone = z}

\* C5: for every zone the daily_trips of its daily rows add up to the
\* number of its normalized events.
C5_DailyTripsConserved ==
    pc = "done" =>
        \A z \in Zones :
            SumOver([g \in 1..Len(daily_zone_features) |->
                         daily_zone_features[g].daily_trips], RowsOfZone(z))
              = Cardinality(NormalizedOfZone(z))

C5_Witness ==
    /\ pc = "done"
    /\ \E z \in Zones :
          /\ Cardinality(RowsOfZone(z)) = 2
          /\ \E g \in RowsOfZone(z) : daily_zone_features[g].daily_trips >= 2

\* C6: the daily rows ascend strictly by (date, zone); each (day, zone) pair
\* with an event has exactly one row, and no row has a zero count.
C6_DailyRowsStrictlyAscending ==
    pc = "done" =>
        LET d == daily_zone_features
        IN  /\ \A g \in 1..Len(d) - 1 :
                   KeyLess(<<d[g].date, d[g].zone>>,
                           <<d[g + 1].date, d[g + 1].zone>>)
            /\ \A z \in Zones : \A i \in NormalizedOfZone(z) :
                   Cardinality({g \in 1..Len(d) :
                       d[g].zone = z
                       /\ d[g].date <= trips[i].pickup_datetime
                       /\ trips[i].pickup_datetime < d[g].date + DayTicks}) = 1
            /\ \A g \in 1..Len(d) :
                   /\ d[g].daily_trips >= 1
                   /\ d[g].date % DayTicks = 0
                   /\ \E i \in NormalizedOfZone(d[g].zone) :
                          /\ d[g].date <= trips[i].pickup_datetime
                          /\ trips[i].pickup_datetime < d[g].date + DayTicks

C6_Witness ==
    /\ pc = "done"
    /\ Len(daily_zone_features) >= 3
    /\ \E g, h \in 1..Len(daily_zone_features) :
          /\ daily_zone_features[g].zone = daily_zone_features[h].zone
          /\ daily_zone_features[g].date < daily_zone_features[h].date

\* A zone whose events are at 00:00, 00:30, 01:00 and 02:00 of one day.
IsExamplePartition(k) ==
    LET t == PartTimes(k)
    IN  /\ Len(t) = 4
        /\ t[1] % DayTicks = 0
        /\ t[2] = t[1] + 1 /\ t[3] = t[1] + ns_1h /\ t[4] = t[1] + 2 * ns_1h

\* C7: with events of one zone at 00:00, 00:30, 01:00 and 02:00, the 1h
\* count of the 01:00 event is 2 and that of the 02:00 event is 1.
C7_ExampleCounts ==
    Counted =>
        \A k \in 1..Len(zone_starts) :
            IsExamplePartition(k) =>
                /\ r1h[PartStart(k) + 3] = 2
                /\ r1h[PartStart(k) + 4] = 1

C7_Witness ==
    /\ Counted
    /\ \E k \in 1..Len(zone_starts) : IsExamplePartition(k)

\* Partition k has a timestamp smaller than its predecessor.
Unsorted(k) ==
    \E i \in 1..Len(PartTimes(k)) - 1 : PartTimes(k)[i] > PartTimes(k)[i + 1]

C9_EmptyInputCompletes ==
    (pc # "clean" /\ Len(trips) = 0) =>
        /\ pc # "error"
        /\ zone_starts = <<>> /\ r1h = <<>> /\ r6h = <<>> /\ r24h = <<>>
        /\ daily_zone_features = <<>>

\* C10: in a sorted partition the count of the event at local index i is
\* i - lower_bound(t - w), and the binary search returns that lower bound.
C10_CountIsIndexMinusLowerBound ==
    Counted =>
        \A k \in 1..Len(zone_starts) : \A w \in Windows :
            LET t == PartTimes(k)
                keys == [i \in 1..Len(t) |-> t[i] - w]
            IN  \A i \in 1..Len(t) :
                    /\ CountOf(w)[PartStart(k) + i]
                         = (i - 1) - LowerBound(t, t[i] - w)
                    /\ searchsorted(t, keys)[i] = LowerBound(t, t[i] - w)

C10_Witness ==
    /\ Counted
    /\ \E k \in 1..Len(zone_starts) :
          LET t == PartTimes(k)
          IN  \E i \in 1..Len(t) :
                  /\ 0 < LowerBound(t, t[i] - ns_1h)
                  /\ LowerBound(t, t[i] - ns_1h) < i - 1
                  /\ r1h[PartStart(k) + i] = (i - 1) - LowerBound(t, t[i] - ns_1h)

\* Events of row i's zone whose timestamp lies in [t - w, t).
PriorInWindow(i, w) ==
    {j \in SameZone(i) : ts[i] - w <= ts[j] /\ ts[j] < ts[i]}

\* C11: every rolling count equals the number of trips of the same zone
\* with timestamp in [t - window, t), also when trips share a timestamp.
C11_PriorHalfOpenCount ==
    Counted =>
        \A i \in 1..Len(ts) : \A w \in Windows :
            CountOf(w)[i] = Cardinality(PriorInWindow(i, w))

\* 1-based number of the partition that holds row i (1-based).
PartOf(i) ==
    CHOOSE k \in 1..Len(zone_starts) : zone_starts[k] < i /\ i <= zone_ends[k]

\* The counts of the whole frame as a function of each partition's own
\* timestamps only.
PerPartitionCounts(w) ==
    [i \in 1..Len(ts) |->
        RollingCount(PartTimes(PartOf(i)), w)[i - zone_starts[PartOf(i)]]]

\* Every entry outside partition k is the same in r and rn.
OnlyPartitionChanged(r, rn, k) ==
    \A i \in 1..Len(r) :
        (i <= zone_starts[k] \/ i > zone_ends[k]) => rn[i] = r[i]

C12_FinalCounts ==
    Counted =>
        /\ r1h = PerPartitionCounts(ns_1h)
        /\ r6h = PerPartitionCounts(ns_6h)
        /\ r24h = PerPartitionCounts(ns_24h)

C12_StepLocal ==
    (pc = "loop" /\ pc' = "loop") =>
        /\ ts' = ts
        /\ \E k \in 1..Len(zone_starts) :
              /\ OnlyPartitionChanged(r1h, r1h', k)
              /\ OnlyPartitionChanged(r6h, r6h', k)
              /\ OnlyPartitionChanged(r24h, r24h', k)

\* C12: processing a partition reads only its own timestamps and writes
\* only its own count entries, so whatever the order or interleaving of the
\* partitions, the final count arrays are the same.
C12_PartitionsIndependent ==
    []C12_FinalCounts /\ [][C12_StepLocal]_vars

\* A later partition is being counted while an earlier one is untouched,
\* and another worker has stopped between two of its assignments.
C12_Witness ==
    /\ pc = "loop"
    /\ \E k, l \in 1..Len(zone_starts) :
          /\ k < l
          /\ ~Written(r1h, k)
          /\ Written(r1h, l) /\ ~Written(r24h, l)

CountKeys ==
    {<<daily_zone_counts[g].date, daily_zone_counts[g].LocationID>> :
        g \in 1..Len(daily_zone_counts)}

FeatureKeys ==
    {<<daily_zone_features[g].date, daily_zone_features[g].zone>> :
        g \in 1..Len(daily_zone_features)}

\* C13: on the same raw records, load_and_aggregate.py and the pipeline
\* produce the same set of (date, zone) keys, and for each key ride_count
\* equals daily_trips.
C13_RideCountEqualsDailyTrips ==
    pc = "done" =>
        /\ CountKeys = FeatureKeys
        /\ \A g \in 1..Len(daily_zone_counts) :
               \A h \in 1..Len(daily_zone_features) :
                   (/\ daily_zone_counts[g].date = daily_zone_features[h].date
                    /\ daily_zone_counts[g].LocationID = daily_zone_features[h].zone)
                     => daily_zone_counts[g].ride_count
                          = daily_zone_features[h].daily_trips

\* Both scripts have finished on a batch in which some record lacked a
\* field and the others fall in at least two groups, one with several rows.
C13_Witness ==
    /\ pc = "done"
    /\ total_rows > Len(trips)
    /\ Len(daily_zone_counts) >= 2
    /\ \E g \in 1..Len(daily_zone_counts) : daily_zone_counts[g].ride_count >= 2
====
